---- MODULE Spec2Model ----
(***************************************************************************)
(* EdgeShiftAI: capability-aware task distribution.                        *)
(*   core/scheduler.py  TaskScheduler  (scoring, distribution,             *)
(*                      reassignment, result collection)                   *)
(*   core/gradio_ui.py  EdgeShiftCore  (peer discovery and health monitor) *)
(* The class DeviceNode used by TaskScheduler (core.device.DeviceNode) is  *)
(* not part of the sources: its fields and calls are the environment of    *)
(* the scheduler.                                                          *)
(* Scores are kept in tenths (score10 = 10 * score) so that                *)
(* 0.5*cpu + 0.4*mem + 0.1*bonus stays an integer.                         *)
(***************************************************************************)
EXTENDS Integers, Sequences, FiniteSets, TLC

\* ------------------------------------------------------------------ bounds
NumPeers == 2
MaxTasks == 5
MaxReassign == 2
CollectTimeout == 2
MaxMessages == 3
PercentStep == 5
MaxPartitions == 4
MaxFailAt == 3

\* ----------------------------------------------------------------- devices
Local == 0
PeerIds == 1 .. NumPeers
Devices == {Local} \cup PeerIds

NoProfile == [none |-> TRUE]
NoBattery == -1

Profile(c, m, b) == [cpu_percent |-> c, memory_percent |-> m, battery |-> b]

\* ------------------------------------------------------- python containers
\* a dict is the sequence of its items in insertion order
Item(key, val) == [k |-> key, v |-> val]

DictHas(d, key) == \E i \in 1 .. Len(d) : d[i].k = key

DictGet(d, key) == d[CHOOSE i \in 1 .. Len(d) : d[i].k = key].v

DictKeys(d) == [i \in 1 .. Len(d) |-> d[i].k]

DictKeySet(d) == { d[i].k : i \in 1 .. Len(d) }

DictSet(d, key, val) ==
  IF DictHas(d, key)
    THEN [i \in 1 .. Len(d) |-> IF d[i].k = key THEN Item(key, val) ELSE d[i]]
    ELSE Append(d, Item(key, val))

DictDel(d, key) ==
  LET keep(e) == e.k # key IN SelectSeq(d, keep)

SeqSet(s) == { s[i] : i \in 1 .. Len(s) }

RemoveAt(s, i) == SubSeq(s, 1, i - 1) \o SubSeq(s, i + 1, Len(s))

\* s[a:b] of python, 0-based, end exclusive
Slice(s, a, b) == SubSeq(s, a + 1, IF b > Len(s) THEN Len(s) ELSE b)

Min(a, b) == IF a < b THEN a ELSE b

Max(a, b) == IF a > b THEN a ELSE b

\* sorted(..., reverse=True): indices of keys in descending order, equal keys
\* keep their original order (the sort is stable)
RECURSIVE OrderDesc(_, _)
OrderDesc(keys, rest) ==
  IF rest = <<>> THEN <<>>
  ELSE LET i == CHOOSE i \in 1 .. Len(rest) :
                  /\ \A j \in 1 .. Len(rest) : keys[rest[j]] <= keys[rest[i]]
                  /\ \A j \in 1 .. i - 1 : keys[rest[j]] < keys[rest[i]]
       IN <<rest[i]>> \o OrderDesc(keys, RemoveAt(rest, i))

\* sorted(...)[::-1] of an ascending sort: equal keys end up reversed
SortedDescTiesReversed(s, keys) ==
  LET perm == OrderDesc(keys, [i \in 1 .. Len(s) |-> Len(s) + 1 - i])
  IN [i \in 1 .. Len(s) |-> s[perm[i]]]

SortedDesc(s, keys) ==
  LET perm == OrderDesc(keys, [i \in 1 .. Len(s) |-> i])
  IN [i \in 1 .. Len(s) |-> s[perm[i]]]

\* ------------------------------------------------------------------- tasks
Task(i, w) == [id |-> i, weight |-> w]

WeightPatterns == {"desc", "asc", "flat"}

WeightOf(pat, i, n) ==
  IF pat = "desc" THEN n - i + 1 ELSE IF pat = "asc" THEN i ELSE 3

MkTasks(n, pat) == [i \in 1 .. n |-> Task(i, WeightOf(pat, i, n))]

TaskLists == { MkTasks(n, pat) : n \in 0 .. MaxTasks, pat \in WeightPatterns }

TaskIds(ts) == { ts[i].id : i \in 1 .. Len(ts) }

\* ------------------------------------------------------------- environment
\* What DeviceNode shows the scheduler during one call: device_status,
\* get_profile(), get_available_peers() and check_peer_status(peer).
ProfileList ==
  << Profile(0, 100, NoBattery), Profile(40, 100, NoBattery),
     Profile(60, 100, NoBattery), Profile(100, 100, 10) >>

\* scores 50/30/20 by id, the same rotated, all 0, peers with odd id without
\* profile, and equal peers above the local node
ProfileTables ==
  { [d \in Devices |-> ProfileList[(d % 3) + 1]],
    [d \in Devices |-> ProfileList[((d + 1) % 3) + 1]],
    [d \in Devices |-> ProfileList[4]],
    [d \in Devices |-> IF d % 2 = 1 THEN NoProfile ELSE ProfileList[2]],
    [d \in Devices |-> IF d = Local THEN ProfileList[3] ELSE ProfileList[1]] }

\* the devices that are not Active, and the Active peers that do not answer
Faults ==
  { <<{}, {}>>, <<{Local}, {}>>, <<{1}, {}>>, <<{}, {NumPeers}>>,
    <<PeerIds, {}>>, <<Devices, {}>> }

Reading(prof, down, silent) ==
  [ device_status |-> IF Local \in down THEN "Crashed" ELSE "Active",
    status |-> [p \in PeerIds |-> IF p \in down THEN "Disconnected" ELSE "Active"],
    reachable |-> [p \in PeerIds |-> p \notin silent],
    profile |-> prof ]

Readings == { Reading(prof, f[1], f[2]) : prof \in ProfileTables, f \in Faults }

NoReading == Reading([d \in Devices |-> NoProfile], {}, {})

VARIABLES
  task_assignments,  \* TaskScheduler.task_assignments
  reassigned_tasks,  \* TaskScheduler.reassigned_tasks
  task_list,         \* the task list of the last distribute_tasks call
  op,                \* the last scheduler operation
  env,               \* what DeviceNode showed during it
  ret,               \* its return value
  sorted_devices,    \* the sorted score table it computed
  failed_devices,    \* the argument of the last reassign_tasks call
  nreassign,         \* reassign_tasks calls since distribute_tasks
  tasks_to_reassign, \* reassign_tasks: the pulled tasks while the call is between its loops
  profile_in,        \* the argument of a _calculate_device_score call
  score_out,         \* what the call returned, times 10, or NoScore
  num_partitions,    \* the num_partitions argument of the last assign_image_partitions call
  core_peers,        \* EdgeShiftCore.peers: peer -> record, or NoPeer
  running,           \* EdgeShiftCore.running
  monitor_pc,        \* _monitor_peers: "sleep", "cycle" (past its while test), or
                     \* "dead" (left by an exception)
  discover_i,        \* _discover_peers: 0 asleep, else the address of the for loop
  probe,             \* the last heartbeat of each directory entry
  answered,          \* history: the peers that have answered a heartbeat so far
  peer_lock,         \* EdgeShiftCore.peer_lock: the threads inside "with self.peer_lock"
  mon_i,             \* _monitor_peers inside the lock: 0 outside, else the peer of its for loop
  mon_stage,         \* "none", or how far the record of that peer is written
  reader_pc,         \* get_device_status: "idle", "locked", or "done" after a call
  torn,              \* the rows its last call read from a record that was partly written
  c_pc,              \* the image job: "idle", "dispatched", "loop", "done"
  pending_devices,   \* collect_results: pending_devices
  results,           \* collect_results: the task ids in results
  elapsed,           \* collect_results: time.time() - start_time, in seconds
  dispatched,        \* device -> ids of the tasks delivered to it
  finished,          \* device -> ids of the tasks whose result it holds
  assigned_ids,      \* the task ids of the assignment collect_results got
  moved_done,        \* moved tasks that their new owner has finished
  ready_at_poll,     \* those of them that a later pass of the loop could have polled
  returned,          \* the return value of collect_results
  send_status,       \* the last return value of distribute_tasks_to_devices
  send_log,          \* its send_task_to_peer calls in order, each with its outcome
  is_coordinator,    \* EdgeDevice.is_coordinator
  dev_peers,         \* EdgeDevice.peers
  worker_capabilities, \* EdgeDevice.worker_capabilities
  peer_connections,  \* the urls that have a socket in EdgeDevice.peer_connections
  last_msg,          \* the last message the message loop received
  response,          \* the reply it sent, or NoReply
  nmsg,              \* messages received so far
  rep_socket,        \* EdgeDevice.socket (REP): "recv" ready for a request, "send" when
                     \* a received request has had no reply
  disc_pc,           \* _start_discovery: "idle", "check", "append", "setup", "done"
  disc_list,         \* discovered_peers
  disc_i,            \* the index of its for loop
  rp_pc,             \* run_peer: "serving" inside its while loop, "down" after finally
  rp_socket,         \* its REP socket: "recv" ready for a request, "send" when a
                     \* received request has had no reply
  rp_served,         \* the messages it has received, each with the reply it sent
  dt_out,            \* EdgeDevice.distribute_task: what the last call returned or raised
  dt_sent,           \* the urls whose socket got a task message in that call
  reg_pending        \* the url of a registration whose record is appended and whose
                     \* connection is not set up yet, or NoUrl

schedVars == <<task_assignments, reassigned_tasks, task_list, op, env, ret,
               sorted_devices, failed_devices, nreassign, tasks_to_reassign,
               profile_in, score_out, num_partitions>>

lockVars == <<peer_lock, mon_i, mon_stage, reader_pc, torn>>

coreVars == <<core_peers, running, monitor_pc, discover_i, probe, answered, lockVars>>

collectVars == <<c_pc, pending_devices, results, elapsed, dispatched, finished,
                 assigned_ids, moved_done, ready_at_poll, returned, send_status,
                 send_log>>

peerVars == <<rp_pc, rp_socket, rp_served>>

taskVars == <<dt_out, dt_sent, reg_pending>>

deviceVars == <<is_coordinator, dev_peers, worker_capabilities, peer_connections,
                last_msg, response, nmsg, rep_socket, disc_pc, disc_list, disc_i,
                peerVars, taskVars>>

vars == <<schedVars, coreVars, collectVars, deviceVars>>

\* ----------------------------------------------------------------- scoring
\* the bonus with thresholds that include their bound
BatteryBonusInclusive(battery) ==
  IF battery = NoBattery THEN 0
  ELSE IF battery >= 80 THEN 15
  ELSE IF battery >= 50 THEN 10
  ELSE IF battery >= 20 THEN 5
  ELSE 0

BatteryBonus(battery) ==
  IF battery = NoBattery THEN 0
  ELSE IF battery > 80 THEN 15
  ELSE IF battery > 50 THEN 10
  ELSE IF battery > 20 THEN 5
  ELSE 0

\* the score from the share of cpu in use, as _calculate_capability takes it
CalculateDeviceScoreByUsage(profile) ==
  IF profile = NoProfile THEN 0
  ELSE 5 * profile.cpu_percent + 4 * (100 - profile.memory_percent)
         + BatteryBonus(profile.battery)

\* _calculate_device_score, times 10
CalculateDeviceScore(profile) ==
  IF profile = NoProfile THEN 0
  ELSE LET cpu_available == 100 - profile.cpu_percent
           memory_available == 100 - profile.memory_percent
       IN 5 * cpu_available + 4 * memory_available + BatteryBonus(profile.battery)

\* the profiles a call is checked with: usage on a grid, battery around the
\* thresholds
Percents == {0, 100} \cup { k * PercentStep : k \in 0 .. (100 \div PercentStep) }

Batteries == {NoBattery, 0, 20, 21, 50, 51, 80, 81, 100}

ScoreProfiles ==
  { Profile(c, m_, b) : c \in Percents, m_ \in Percents, b \in Batteries } \cup {NoProfile}

NoScore == -1

\* one call of _calculate_device_score
Score ==
  /\ score_out = NoScore
  /\ score_out' = CalculateDeviceScore(profile_in)
  /\ UNCHANGED <<task_assignments, reassigned_tasks, task_list, op, env, ret,
                 sorted_devices, failed_devices, nreassign, tasks_to_reassign, profile_in,
                 num_partitions>>

\* the loop over the peers without the status test
RECURSIVE PeerScoresAnyStatus(_, _, _)
PeerScoresAnyStatus(e, p, scores) ==
  IF p > NumPeers THEN scores
  ELSE PeerScoresAnyStatus(e, p + 1,
         IF e.profile[p] # NoProfile
           THEN DictSet(scores, p, CalculateDeviceScore(e.profile[p]))
           ELSE scores)

RECURSIVE PeerScores(_, _, _)
PeerScores(e, p, scores) ==
  IF p > NumPeers THEN scores
  ELSE PeerScores(e, p + 1,
         IF e.status[p] = "Active" /\ e.profile[p] # NoProfile
           THEN DictSet(scores, p, CalculateDeviceScore(e.profile[p]))
           ELSE scores)

\* get_device_scores: local node first, then the peers in directory order
GetDeviceScores(e) ==
  LET local == IF e.device_status = "Active"
                 THEN <<Item(Local, CalculateDeviceScore(e.profile[Local]))>>
                 ELSE <<>>
  IN PeerScores(e, 1, local)

SortDevices(scores) == SortedDesc(scores, [i \in 1 .. Len(scores) |-> scores[i].v])

\* the task list taken in the order it was given
SortTasksAsGiven(ts) == ts

SortTasks(ts) == SortedDesc(ts, [i \in 1 .. Len(ts) |-> ts[i].weight])

RECURSIVE SumScores(_)
SumScores(sd) == IF sd = <<>> THEN 0 ELSE Head(sd).v + SumScores(Tail(sd))

\* ------------------------------------------------------------ distribution
\* the even split with every slice starting at i * tasks_per_device
EvenAssignNoOffset(sd, st) ==
  LET tasks_per_device == Len(st) \div Len(sd)
      remainder == Len(st) % Len(sd)
      start_idx(i) == i * tasks_per_device
      end_idx(i) == start_idx(i) + tasks_per_device + (IF i < remainder THEN 1 ELSE 0)
  IN [n \in 1 .. Len(sd) |-> Item(sd[n].k, Slice(st, start_idx(n - 1), end_idx(n - 1)))]

\* even split when every score is 0
EvenAssign(sd, st) ==
  LET tasks_per_device == Len(st) \div Len(sd)
      remainder == Len(st) % Len(sd)
      start_idx(i) == i * tasks_per_device + Min(i, remainder)
      end_idx(i) == start_idx(i) + tasks_per_device + (IF i < remainder THEN 1 ELSE 0)
  IN [n \in 1 .. Len(sd) |-> Item(sd[n].k, Slice(st, start_idx(n - 1), end_idx(n - 1)))]

\* int(score / total_score * len(sorted_tasks))
ShareCount(score, total_score, n) == (score * n) \div total_score

\* the count without the raise to at least one task
TaskCountNoRaise(score, total_score, n, remaining_tasks) ==
  Min(ShareCount(score, total_score, n), remaining_tasks)

\* max(task_count, 1) if remaining_tasks > 0 else 0, then min with remaining
TaskCount(score, total_score, n, remaining_tasks) ==
  Min(IF remaining_tasks > 0 THEN Max(ShareCount(score, total_score, n), 1) ELSE 0,
      remaining_tasks)

\* the for loop over sorted_devices with its break
RECURSIVE PropLoop(_, _, _, _, _, _, _)
PropLoop(sd, st, total_score, i, task_idx, remaining_tasks, assignments) ==
  IF i > Len(sd) THEN assignments
  ELSE LET task_count == TaskCount(sd[i].v, total_score, Len(st), remaining_tasks)
           next == DictSet(assignments, sd[i].k,
                           Slice(st, task_idx, task_idx + task_count))
       IN IF remaining_tasks - task_count <= 0 THEN next
          ELSE PropLoop(sd, st, total_score, i + 1, task_idx + task_count,
                        remaining_tasks - task_count, next)

PropAssign(sd, st) == PropLoop(sd, st, SumScores(sd), 1, 0, Len(st), <<>>)

ComputeAssignments(sd, st) ==
  IF SumScores(sd) = 0 THEN EvenAssign(sd, st) ELSE PropAssign(sd, st)

\* distribute_tasks(task_list)
DistributeTasks(tl, e) ==
  LET device_scores == GetDeviceScores(e)
      sd == SortDevices(device_scores)
  IN /\ task_list' = tl
     /\ op' = "distribute"
     /\ env' = e
     /\ sorted_devices' = sd
     /\ failed_devices' = <<>>
     /\ IF sd = <<>>
          THEN /\ ret' = <<>>
               /\ UNCHANGED task_assignments
          ELSE LET assignments == ComputeAssignments(sd, SortTasks(tl))
               IN /\ task_assignments' = assignments
                  /\ ret' = assignments
     /\ UNCHANGED <<reassigned_tasks, tasks_to_reassign, profile_in, score_out>>

\* --------------------------------------------------------------- reassignment
\* the first loop without the del: the entries of the failed devices stay
RECURSIVE PullTasksKeeping(_, _, _, _)
PullTasksKeeping(failed, i, assignments, pulled) ==
  IF i > Len(failed) THEN [assignments |-> assignments, pulled |-> pulled]
  ELSE IF DictHas(assignments, failed[i])
    THEN PullTasksKeeping(failed, i + 1, assignments,
                          pulled \o DictGet(assignments, failed[i]))
    ELSE PullTasksKeeping(failed, i + 1, assignments, pulled)

\* the first loop of reassign_tasks: pull the tasks of the failed devices
RECURSIVE PullTasks(_, _, _, _)
PullTasks(failed, i, assignments, pulled) ==
  IF i > Len(failed) THEN [assignments |-> assignments, pulled |-> pulled]
  ELSE IF DictHas(assignments, failed[i])
    THEN PullTasks(failed, i + 1, DictDel(assignments, failed[i]),
                   pulled \o DictGet(assignments, failed[i]))
    ELSE PullTasks(failed, i + 1, assignments, pulled)

\* the score table with the failed devices left in
DropFailedNone(failed, i, scores) == scores

RECURSIVE DropFailed(_, _, _)
DropFailed(failed, i, scores) ==
  IF i > Len(failed) THEN scores
  ELSE DropFailed(failed, i + 1, DictDel(scores, failed[i]))

\* the placement that gives every pulled task to the best healthy device
RoundRobinFirstOnly(sd, pulled, i, reassignments) ==
  IF pulled = <<>> THEN reassignments ELSE <<Item(sd[1].k, pulled)>>

\* round robin over the sorted healthy devices
RECURSIVE RoundRobin(_, _, _, _)
RoundRobin(sd, pulled, i, reassignments) ==
  IF i > Len(pulled) THEN reassignments
  ELSE LET device_id == sd[((i - 1) % Len(sd)) + 1].k
           sofar == IF DictHas(reassignments, device_id)
                      THEN DictGet(reassignments, device_id) ELSE <<>>
       IN RoundRobin(sd, pulled, i + 1,
                     DictSet(reassignments, device_id, Append(sofar, pulled[i])))

\* the variant that replaces the entry of the target device instead of extending it
RECURSIVE MergeAssignmentsReplacing(_, _, _)
MergeAssignmentsReplacing(reassignments, i, assignments) ==
  IF i > Len(reassignments) THEN assignments
  ELSE MergeAssignmentsReplacing(reassignments, i + 1,
         DictSet(assignments, reassignments[i].k, reassignments[i].v))

\* the last loop of reassign_tasks: merge into task_assignments
RECURSIVE MergeAssignments(_, _, _)
MergeAssignments(reassignments, i, assignments) ==
  IF i > Len(reassignments) THEN assignments
  ELSE LET device_id == reassignments[i].k
           tasks == reassignments[i].v
       IN MergeAssignments(reassignments, i + 1,
            IF DictHas(assignments, device_id)
              THEN DictSet(assignments, device_id, DictGet(assignments, device_id) \o tasks)
              ELSE DictSet(assignments, device_id, tasks))

\* check_device_health: the local node first, then the peers in order
RECURSIVE FailedPeers(_, _, _)
FailedPeers(e, p, failed) ==
  IF p > NumPeers THEN failed
  ELSE FailedPeers(e, p + 1,
         IF e.status[p] # "Active" THEN Append(failed, p)
         ELSE IF ~e.reachable[p] THEN Append(failed, p)
         ELSE failed)

CheckDeviceHealth(e) ==
  FailedPeers(e, 1, IF e.device_status # "Active" THEN <<Local>> ELSE <<>>)

\* reassign_tasks(failed_devices)
ReassignTasks(failed, e) ==
  LET pull == PullTasks(failed, 1, task_assignments, <<>>)
      device_scores == DropFailed(failed, 1, GetDeviceScores(e))
      sd == SortDevices(device_scores)
      reassignments == RoundRobin(sd, pull.pulled, 1, <<>>)
  IN /\ op' = "reassign"
     /\ env' = e
     /\ failed_devices' = failed
     /\ UNCHANGED <<task_list, tasks_to_reassign, profile_in, score_out, num_partitions>>
     /\ IF failed = <<>>
          THEN /\ ret' = <<>>
               /\ sorted_devices' = <<>>
               /\ UNCHANGED <<task_assignments, reassigned_tasks>>
          ELSE IF pull.pulled = <<>>
          THEN /\ ret' = <<>>
               /\ sorted_devices' = <<>>
               /\ task_assignments' = pull.assignments
               /\ UNCHANGED reassigned_tasks
          ELSE /\ reassigned_tasks' = reassigned_tasks \cup TaskIds(pull.pulled)
               /\ sorted_devices' = sd
               /\ IF sd = <<>>
                    THEN /\ ret' = <<>>
                         /\ task_assignments' = pull.assignments
                    ELSE /\ ret' = reassignments
                         /\ task_assignments' =
                              MergeAssignments(reassignments, 1, pull.assignments)

\* reassign_tasks in two steps. The first loop: the entries of the failed
\* devices are deleted from self.task_assignments and their tasks pooled; a
\* call that pulls nothing returns here
ReassignPull(failed, e) ==
  LET pull == PullTasks(failed, 1, task_assignments, <<>>)
  IN /\ tasks_to_reassign = <<>>
     /\ failed # <<>>
     /\ op' = "reassign"
     /\ env' = e
     /\ failed_devices' = failed
     /\ task_assignments' = pull.assignments
     /\ tasks_to_reassign' = pull.pulled
     /\ ret' = <<>>
     /\ sorted_devices' = <<>>
     /\ UNCHANGED <<task_list, reassigned_tasks, profile_in, score_out, num_partitions>>

\* the rest of the call: tag the pulled tasks, place them round robin on the
\* healthy devices and merge them into self.task_assignments
ReassignPlace ==
  LET device_scores == DropFailed(failed_devices, 1, GetDeviceScores(env))
      sd == SortDevices(device_scores)
      reassignments == RoundRobin(sd, tasks_to_reassign, 1, <<>>)
  IN /\ tasks_to_reassign # <<>>
     /\ reassigned_tasks' = reassigned_tasks \cup TaskIds(tasks_to_reassign)
     /\ sorted_devices' = sd
     /\ IF sd = <<>>
          THEN /\ ret' = <<>>
               /\ UNCHANGED task_assignments
          ELSE /\ ret' = reassignments
               /\ task_assignments' = MergeAssignments(reassignments, 1, task_assignments)
     /\ tasks_to_reassign' = <<>>
     /\ UNCHANGED <<task_list, op, env, failed_devices, profile_in, score_out,
                    num_partitions>>

\* ------------------------------------------------- EdgeShiftCore (gradio_ui)
\* Time is counted in sleeps of the monitor loop (time.sleep(3)); a peer record
\* keeps age = time.time() - last_seen, capped above the grace period.
MonitorInterval == 3
GracePeriod == 10

NoPeer == [none |-> TRUE]

\* an entry no monitor cycle has probed yet
NoProbe == [failed |-> FALSE, stale |-> FALSE]

PeerRecord(st, a, so) == [status |-> st, age |-> a, socket |-> so]

\* what a heartbeat can meet: no reply within RCVTIMEO, a reply that is not
\* JSON, or a reply with a status
Replies == {"timeout", "garbled", "Active", "error"}

Known(peers_) == { p \in PeerIds : peers_[p] # NoPeer }

\* time.time() - peer['last_seen'] > 10
Expired(age) == age > GracePeriod

\* the try block of _monitor_peers for one peer: TRUE when it raises
ProbeFails(rec, reply) ==
  \/ rec.socket # "ready"
  \/ reply \in {"timeout", "garbled"}

\* a heartbeat whose except branch leaves the status as it was
ProbedKeepingStatus(rec, reply) ==
  IF ProbeFails(rec, reply)
    THEN [rec EXCEPT !.socket = IF rec.socket = "ready" /\ reply = "timeout"
                                  THEN "must_recv" ELSE rec.socket]
    ELSE [rec EXCEPT !.status = reply, !.age = 0]

\* the peer record after the try/except of one heartbeat
Probed(rec, reply) ==
  IF ProbeFails(rec, reply)
    THEN [rec EXCEPT !.status = "Disconnected",
                     !.socket = IF rec.socket = "ready" /\ reply = "timeout"
                                  THEN "must_recv" ELSE rec.socket]
    ELSE [rec EXCEPT !.status = reply, !.age = 0]

\* the exception the try block raises for one peer: send_json on a socket that
\* is closed or still owes a recv, recv_json at RCVTIMEO, a reply that is no
\* JSON object
Raised(rec, reply) ==
  IF rec.socket # "ready" THEN "ZMQError"
  ELSE IF reply = "timeout" THEN "Again"
  ELSE IF reply = "garbled" THEN "ValueError"
  ELSE "none"

\* a handler that takes only the receive timeout
CatchesAgainOnly(exc) == exc = "Again"

\* except Exception as e
Catches(exc) == exc \in {"ZMQError", "Again", "ValueError"}

\* the first peer of the for loop whose exception leaves the loop, if any
FirstEscape(peers_, replies) ==
  LET out == { p \in Known(peers_) :
                 /\ ProbeFails(peers_[p], replies[p])
                 /\ ~Catches(Raised(peers_[p], replies[p])) }
  IN IF out = {} THEN NumPeers + 1
     ELSE CHOOSE p \in out : \A q \in out : p <= q

\* to_remove of one cycle
ToRemove(peers_, replies) ==
  { p \in Known(peers_) : ProbeFails(peers_[p], replies[p]) /\ Expired(peers_[p].age) }

\* the test of the while loop of _monitor_peers
MonitorWake ==
  /\ monitor_pc = "sleep"
  /\ running
  /\ monitor_pc' = "cycle"
  /\ UNCHANGED <<core_peers, running, discover_i, probe, answered, lockVars, schedVars,
                 collectVars, deviceVars>>

\* the body of _monitor_peers under peer_lock, with the replies it meets
MonitorBody(replies) ==
  \E stop_at \in {FirstEscape(core_peers, replies)} :
    \E removed \in {IF stop_at > NumPeers THEN ToRemove(core_peers, replies) ELSE {}} :
      /\ core_peers' = [p \in PeerIds |->
           IF core_peers[p] = NoPeer \/ p \in removed THEN NoPeer
           ELSE IF p < stop_at THEN Probed(core_peers[p], replies[p])
           ELSE core_peers[p]]
      /\ probe' = [p \in PeerIds |->
           IF core_peers[p] = NoPeer \/ p >= stop_at THEN probe[p]
           ELSE [failed |-> ProbeFails(core_peers[p], replies[p]),
                 stale |-> /\ ProbeFails(core_peers[p], replies[p])
                           /\ core_peers[p].age > GracePeriod]]
      /\ monitor_pc' = IF stop_at > NumPeers THEN "sleep" ELSE "dead"

\* the peers whose reply the try block of that pass took
Heard(replies) ==
  { p \in Known(core_peers) :
      p < FirstEscape(core_peers, replies) /\ ~ProbeFails(core_peers[p], replies[p]) }

\* one pass of the body of _monitor_peers
MonitorCycle ==
  /\ monitor_pc = "cycle"
  /\ \E replies \in [PeerIds -> Replies] : MonitorBody(replies)
  /\ UNCHANGED <<running, discover_i, answered, lockVars, schedVars,
                 collectVars, deviceVars>>

\* the same pass, remembering who answered
MonitorCycleHeard ==
  /\ monitor_pc = "cycle"
  /\ \E replies \in [PeerIds -> Replies] :
       /\ MonitorBody(replies)
       /\ answered' = answered \cup Heard(replies)
  /\ UNCHANGED <<running, discover_i, lockVars, schedVars,
                 collectVars, deviceVars>>

\* time.sleep: every last_seen gets older by one monitor interval
TimePasses ==
  /\ \E p \in PeerIds : core_peers[p] # NoPeer /\ core_peers[p].age <= GracePeriod
  /\ core_peers' = [p \in PeerIds |->
       IF core_peers[p] = NoPeer THEN NoPeer
       ELSE [core_peers[p] EXCEPT !.age = Min(@ + MonitorInterval, GracePeriod + 1)]]
  /\ UNCHANGED <<running, monitor_pc, discover_i, probe, answered, lockVars, schedVars,
                 collectVars, deviceVars>>

\* the test of the while loop of _discover_peers
DiscoverWake ==
  /\ discover_i = 0
  /\ running
  /\ discover_i' = 1
  /\ UNCHANGED <<core_peers, running, monitor_pc, probe, answered, lockVars, schedVars,
                 collectVars, deviceVars>>

\* one address of the for loop of _discover_peers
DiscoverPeer ==
  /\ discover_i \in PeerIds
  /\ IF core_peers[discover_i] = NoPeer
       THEN /\ core_peers' = [core_peers EXCEPT
                                ![discover_i] = PeerRecord("Active", 0, "ready")]
            /\ probe' = [probe EXCEPT ![discover_i] = NoProbe]
       ELSE UNCHANGED <<core_peers, probe>>
  /\ discover_i' = IF discover_i = NumPeers THEN 0 ELSE discover_i + 1
  /\ UNCHANGED <<running, monitor_pc, answered, lockVars, schedVars,
                 collectVars, deviceVars>>

\* EdgeShiftCore.stop
Stop ==
  /\ running
  /\ running' = FALSE
  /\ core_peers' = [p \in PeerIds |->
       IF core_peers[p] = NoPeer THEN NoPeer
       ELSE [core_peers[p] EXCEPT !.socket = "closed"]]
  /\ UNCHANGED <<monitor_pc, discover_i, probe, answered, lockVars, schedVars,
                 collectVars, deviceVars>>

\* the peer rows of get_device_status that read Active
ActivePeers(peers_) == { p \in Known(peers_) : peers_[p].status = "Active" }

\* ---------------------------------------- EdgeShiftCore at the grain of peer_lock
\* a lock that lets a thread in whoever holds it
AcquiresAlways(holders) == TRUE

\* with self.peer_lock: a thread gets in when no thread is inside
Acquires(holders) == holders = {}

\* _discover_peers: the membership test is outside the lock, the insert inside
LockedDiscoverPeer ==
  /\ discover_i \in PeerIds
  /\ core_peers[discover_i] = NoPeer => Acquires(peer_lock)
  /\ DiscoverPeer

\* _monitor_peers: with self.peer_lock
MonitorEnter ==
  /\ monitor_pc = "cycle"
  /\ mon_i = 0
  /\ Acquires(peer_lock)
  /\ peer_lock' = peer_lock \cup {"monitor"}
  /\ mon_i' = 1
  /\ UNCHANGED <<core_peers, running, monitor_pc, discover_i, probe, answered, mon_stage,
                 reader_pc, torn, schedVars, collectVars, deviceVars>>

\* the heartbeat of one peer up to the store of peer['status']
MonitorWriteStatus ==
  /\ mon_i \in PeerIds
  /\ mon_stage = "none"
  /\ IF core_peers[mon_i] = NoPeer
       THEN /\ mon_i' = mon_i + 1
            /\ UNCHANGED <<core_peers, mon_stage>>
       ELSE \E reply \in Replies :
              /\ core_peers' = [core_peers EXCEPT ![mon_i] =
                   [status |-> Probed(core_peers[mon_i], reply).status,
                    age |-> core_peers[mon_i].age,
                    socket |-> Probed(core_peers[mon_i], reply).socket]]
              /\ mon_stage' = IF ProbeFails(core_peers[mon_i], reply) THEN "failed" ELSE "ok"
              /\ mon_i' = mon_i
  /\ UNCHANGED <<running, monitor_pc, discover_i, probe, answered, peer_lock, reader_pc,
                 torn, schedVars, collectVars, deviceVars>>

\* the rest of the record: last_seen and the metrics, or the metrics and to_remove
MonitorWriteRest ==
  /\ mon_i \in PeerIds
  /\ mon_stage # "none"
  /\ core_peers' = [core_peers EXCEPT ![mon_i] =
       IF mon_stage = "ok" THEN [@ EXCEPT !.age = 0] ELSE @]
  /\ probe' = [probe EXCEPT ![mon_i] =
       [failed |-> mon_stage = "failed",
        stale |-> mon_stage = "failed" /\ Expired(core_peers[mon_i].age)]]
  /\ mon_stage' = "none"
  /\ mon_i' = mon_i + 1
  /\ UNCHANGED <<running, monitor_pc, discover_i, answered, peer_lock, reader_pc,
                 torn, schedVars, collectVars, deviceVars>>

\* the removals, and the end of the with block
MonitorLeave ==
  /\ mon_i = NumPeers + 1
  /\ core_peers' = [p \in PeerIds |->
       IF core_peers[p] # NoPeer /\ probe[p].failed /\ probe[p].stale
         THEN NoPeer ELSE core_peers[p]]
  /\ peer_lock' = peer_lock \ {"monitor"}
  /\ mon_i' = 0
  /\ monitor_pc' = "sleep"
  /\ UNCHANGED <<running, discover_i, probe, answered, mon_stage, reader_pc,
                 torn, schedVars, collectVars, deviceVars>>

\* get_device_status: with self.peer_lock
ReaderEnter ==
  /\ reader_pc # "locked"
  /\ Acquires(peer_lock)
  /\ peer_lock' = peer_lock \cup {"reader"}
  /\ reader_pc' = "locked"
  /\ UNCHANGED <<core_peers, running, monitor_pc, discover_i, probe, answered, mon_i,
                 mon_stage, torn, schedVars, collectVars, deviceVars>>

\* its for loop over self.peers.items(), and the end of the with block
ReaderRead ==
  /\ reader_pc = "locked"
  /\ torn' = { p \in Known(core_peers) : mon_i = p /\ mon_stage # "none" }
  /\ peer_lock' = peer_lock \ {"reader"}
  /\ reader_pc' = "done"
  /\ UNCHANGED <<core_peers, running, monitor_pc, discover_i, probe, answered, mon_i,
                 mon_stage, schedVars, collectVars, deviceVars>>

\* --------------------------------------------- the image job (run, scheduler)
NoReturn == [none |-> TRUE]

\* random.randint(3, 7) for every partition: falling or rising with the index
ImagePatterns == {"desc", "asc"}

ImageWeight(pat, i) ==
  IF pat = "desc" THEN Max(8 - i, 3) ELSE Min(2 + i, 7)

\* num_partitions=None, or a number
NoRequest == [none |-> TRUE]

Request(n) == [n |-> n]

Requests == {NoRequest} \cup { Request(n) : n \in -1 .. MaxPartitions }

\* f"img_{image_path.split('/')[-1]}_{i}" for the image of the call
ImageTaskId(i) == <<"img", i>>

ImageTask(i, w, total) ==
  [id |-> ImageTaskId(i), weight |-> w, partition_index |-> i, total_partitions |-> total]

\* the count taken as it is given
PartitionCountUnchecked(requested, ndevices) ==
  IF requested = NoRequest THEN ndevices ELSE requested.n

\* num_partitions after the two tests
PartitionCount(requested, ndevices) ==
  LET given == IF requested = NoRequest THEN ndevices ELSE requested.n
  IN IF given <= 0 THEN 1 ELSE given

\* for i in range(num_partitions)
ImageTasks(total, pat) ==
  [j \in 1 .. total |-> ImageTask(j - 1, ImageWeight(pat, j), total)]

\* assign_image_partitions(image_path, num_partitions)
AssignImagePartitions(e, pat, requested) ==
  LET total == PartitionCount(requested, Len(GetDeviceScores(e)))
  IN /\ DistributeTasks(ImageTasks(total, pat), e)
     /\ num_partitions' = requested

\* distribute_tasks_to_devices: local tasks go to the worker threads, a peer
\* gets its tasks when send_task_to_peer reaches it
Dispatch(assignments, e, disp) ==
  [d \in Devices |->
     IF DictHas(assignments, d) /\ (d = Local \/ e.reachable[d])
       THEN disp[d] \cup TaskIds(DictGet(assignments, d))
       ELSE disp[d]]

\* one call of send_task_to_peer and what it returned
Sent(device_id, task, ok) == [device |-> device_id, id |-> task.id, ok |-> ok]

\* where the sends to a peer start to fail: 0 never, else the number of the
\* first call of send_task_to_peer for that peer that returns False
FailPoints == [PeerIds -> 0 .. MaxFailAt]

\* the loop over the tasks of a remote device without its break: sends after
\* a failed one go through
RECURSIVE SendLoopNoBreak(_, _, _, _, _)
SendLoopNoBreak(device_id, tasks, i, fail_at, out) ==
  IF i > Len(tasks) THEN out
  ELSE IF fail_at = i
    THEN SendLoopNoBreak(device_id, tasks, i + 1, fail_at,
           [success |-> FALSE, log |-> Append(out.log, Sent(device_id, tasks[i], FALSE))])
    ELSE SendLoopNoBreak(device_id, tasks, i + 1, fail_at,
           [out EXCEPT !.log = Append(out.log, Sent(device_id, tasks[i], TRUE))])

\* for task in tasks: if not send_task_to_peer(device_id, task): success =
\* False; break
RECURSIVE SendLoop(_, _, _, _, _)
SendLoop(device_id, tasks, i, fail_at, out) ==
  IF i > Len(tasks) THEN out
  ELSE IF fail_at = i
    THEN [success |-> FALSE, log |-> Append(out.log, Sent(device_id, tasks[i], FALSE))]
    ELSE SendLoop(device_id, tasks, i + 1, fail_at,
           [out EXCEPT !.log = Append(out.log, Sent(device_id, tasks[i], TRUE))])

\* distribute_tasks_to_devices(task_assignments): the loop over the devices
RECURSIVE DistributeTasksToDevices(_, _, _, _)
DistributeTasksToDevices(assignments, k, fails, out) ==
  IF k > Len(assignments) THEN out
  ELSE LET device_id == assignments[k].k
           tasks == assignments[k].v
       IN IF device_id = Local
            THEN DistributeTasksToDevices(assignments, k + 1, fails,
                   [out EXCEPT !.results = DictSet(out.results, device_id, TRUE),
                               !.local = out.local \o tasks])
            ELSE LET sent == SendLoop(device_id, tasks, 1, fails[device_id],
                                      [success |-> TRUE, log |-> out.log])
                 IN DistributeTasksToDevices(assignments, k + 1, fails,
                      [out EXCEPT !.results = DictSet(out.results, device_id, sent.success),
                                  !.log = sent.log])

\* the tasks a device holds after the call
Delivered(out, disp) ==
  [d \in Devices |->
     disp[d] \cup (IF d = Local THEN TaskIds(out.local)
                   ELSE { out.log[i].id : i \in { j \in 1 .. Len(out.log) :
                                                   out.log[j].device = d /\ out.log[j].ok } })]

\* distribute_tasks_to_devices on the assignment distribute_tasks returned
SendTasks ==
  /\ op = "distribute"
  /\ \E fails \in FailPoints :
       \E out \in {DistributeTasksToDevices(ret, 1, fails,
                      [results |-> <<>>, log |-> <<>>, local |-> <<>>])} :
         /\ send_status' = out.results
         /\ send_log' = out.log
         /\ dispatched' = Delivered(out, [d \in Devices |-> {}])
  /\ op' = "send"
  /\ UNCHANGED <<task_assignments, reassigned_tasks, task_list, env, ret,
                 sorted_devices, failed_devices, nreassign, tasks_to_reassign,
                 profile_in, score_out, num_partitions>>
  /\ UNCHANGED <<c_pc, pending_devices, results, elapsed, finished, assigned_ids,
                 moved_done, ready_at_poll, returned>>
  /\ UNCHANGED <<coreVars, deviceVars>>

\* collect_result_from_peer: a device reports once all it was given is done
CollectResultFromPeer(d, disp, fin) ==
  IF disp[d] # {} /\ disp[d] \subseteq fin[d] THEN fin[d] ELSE {}

\* the variant of the loop test that only looks at pending_devices
LoopGuardNoDeadline(el, pending) == pending # <<>>

\* time.time() - start_time < timeout and pending_devices
LoopGuard(el, pending) == el < CollectTimeout /\ pending # <<>>

\* the clock after the time.sleep(1) of one pass
Later(el) == Min(el + 1, CollectTimeout + 1)

Owner(assignments, id) ==
  { d \in Devices : DictHas(assignments, d) /\ id \in TaskIds(DictGet(assignments, d)) }

\* how many partitions the earlier image had
EarlierCounts == {1, 2}

\* the tasks of an image submitted earlier
EarlierTasks(total, pat) ==
  [j \in 1 .. total |->
     [ImageTask(j - 1, ImageWeight(pat, j), total) EXCEPT !.id = <<"img_earlier", j - 1>>]]

\* an earlier submission that ran on the local node alone and is over: its
\* tasks were appended to local_node.tasks and their results are in
\* local_node.results
EarlierSubmission ==
  /\ c_pc = "idle"
  /\ op = "init"
  /\ dispatched[Local] = {}
  /\ \E total \in EarlierCounts, pat \in ImagePatterns :
       /\ dispatched' = [dispatched EXCEPT ![Local] = TaskIds(EarlierTasks(total, pat))]
       /\ finished' = [finished EXCEPT ![Local] = TaskIds(EarlierTasks(total, pat))]
  /\ UNCHANGED <<schedVars, coreVars, deviceVars, c_pc, pending_devices, results, elapsed,
                 assigned_ids, moved_done, ready_at_poll, returned, send_status, send_log>>

\* process_image_collaborative up to the call of collect_results
SubmitImage ==
  /\ c_pc = "idle"
  /\ op = "init"
  /\ \E e \in Readings, pat \in ImagePatterns :
       /\ AssignImagePartitions(e, pat, NoRequest)
       /\ dispatched' = Dispatch(ret', e, dispatched)
  /\ c_pc' = "dispatched"
  /\ UNCHANGED <<nreassign, pending_devices, results, elapsed, finished,
                 assigned_ids, moved_done, ready_at_poll, returned, send_status, send_log,
                 coreVars, deviceVars>>

\* a worker, local or remote, finishes what it was given
DeviceCompletes ==
  /\ c_pc \in {"dispatched", "loop"}
  /\ \E d \in Devices :
       /\ dispatched[d] # finished[d]
       /\ finished' = [finished EXCEPT ![d] = dispatched[d]]
       /\ moved_done' = moved_done \cup
            { id \in (dispatched[d] \ finished[d]) \cap reassigned_tasks :
                d \in Owner(task_assignments, id) }
  /\ UNCHANGED <<schedVars, coreVars, deviceVars, c_pc, pending_devices, results, elapsed,
                 dispatched, assigned_ids, ready_at_poll, returned, send_status, send_log>>

\* collect_results before its loop
CollectStart ==
  /\ c_pc = "dispatched"
  /\ LET local == DictHas(ret, Local)
         notLocal(d) == d # Local
     IN /\ results' = IF local THEN finished[Local] ELSE {}
        /\ pending_devices' = SelectSeq(DictKeys(ret), notLocal)
  /\ elapsed' = 0
  /\ assigned_ids' = UNION { TaskIds(ret[i].v) : i \in 1 .. Len(ret) }
  /\ c_pc' = "loop"
  /\ UNCHANGED <<schedVars, coreVars, deviceVars, dispatched, finished, moved_done,
                 ready_at_poll, returned, send_status, send_log>>

\* one pass of the while loop of collect_results
CollectIteration ==
  /\ c_pc = "loop"
  /\ LoopGuard(elapsed, pending_devices)
  /\ \E e \in Readings :
       /\ e.profile = env.profile
       /\ LET failed == CheckDeviceHealth(e)
              healthy(d) == \A i \in 1 .. Len(failed) : failed[i] # d
              still == SelectSeq(pending_devices, healthy)
          IN /\ IF failed # <<>>
                  THEN /\ ReassignTasks(failed, e)
                       /\ dispatched' = Dispatch(ret', e, dispatched)
                  ELSE UNCHANGED <<task_assignments, reassigned_tasks, task_list, op,
                                   env, ret, sorted_devices, failed_devices,
                                   tasks_to_reassign, profile_in, score_out,
                                   num_partitions, dispatched>>
             /\ LET silent(d) == CollectResultFromPeer(d, dispatched', finished) = {}
                IN /\ pending_devices' = SelectSeq(still, silent)
                   /\ results' = results \cup
                        UNION { CollectResultFromPeer(d, dispatched', finished) :
                                d \in SeqSet(still) }
             /\ ready_at_poll' = ready_at_poll \cup
                  { id \in moved_done :
                      \E d \in Owner(task_assignments', id) :
                        id \in CollectResultFromPeer(d, dispatched', finished) }
  /\ elapsed' = Later(elapsed)
  /\ UNCHANGED <<nreassign, coreVars, deviceVars, c_pc, finished, assigned_ids, moved_done,
                 returned, send_status, send_log>>

\* what the clock shows of a pass of the loop: the steps of CollectIteration
\* are the steps that satisfy it
CollectPass ==
  /\ c_pc = "loop"
  /\ LoopGuard(elapsed, pending_devices)
  /\ elapsed' = Later(elapsed)

\* a caller that combines whatever collect_results returned
JobResultAlwaysCombined(res, reassigned) ==
  [results |-> res, tasks_reassigned |-> Cardinality(reassigned)]

\* the value process_image_collaborative returns after collect_results
JobResult(res, reassigned) ==
  IF res # {}
    THEN [results |-> res, tasks_reassigned |-> Cardinality(reassigned)]
    ELSE [error |-> "No results collected"]

\* return results
CollectReturn ==
  /\ c_pc = "loop"
  /\ ~LoopGuard(elapsed, pending_devices)
  /\ returned' = [results |-> results]
  /\ c_pc' = "done"
  /\ UNCHANGED <<schedVars, coreVars, deviceVars, pending_devices, results, elapsed, dispatched,
                 finished, assigned_ids, moved_done, ready_at_poll, send_status, send_log>>

\* ------------------------------------------------------- EdgeDevice (device)
\* None, and a key a message does not have, is "none"
NoReply == [status |-> "none"]

NoMessage == [isdict |-> FALSE, action |-> "none"]

\* f"tcp://{address}:{port}"
Url(address, port) ==
  <<"tcp://", IF address = "none" THEN "None" ELSE address, ":",
    IF port = "none" THEN "None" ELSE port>>

PeerEntry(type, address, port, capabilities) ==
  [url |-> Url(address, port), type |-> type, address |-> address, port |-> port,
   capabilities |-> capabilities]

Registrations ==
  { [isdict |-> TRUE, action |-> "register", node_type |-> t, address |-> a,
     port |-> po, capabilities |-> c] :
      t \in {"worker", "coordinator"}, a \in {"a1", "none"},
      po \in {"p1", "none"}, c \in {"c1", "c2"} }

OtherMessages ==
  { [isdict |-> TRUE, action |-> a] : a \in {"ping", "bogus", ""} }
    \cup { [isdict |-> TRUE, action |-> "task", payload |-> pl] :
             pl \in {"echo", "other", "notdict"} }
    \cup { NoMessage }

Messages == Registrations \cup OtherMessages

\* what the broadcasts of the workers can put into discovered_peers
DiscoveredLists ==
  { <<>>, <<PeerEntry("worker", "a1", "p1", "none")>>,
    <<PeerEntry("worker", "a2", "p1", "none"), PeerEntry("worker", "a1", "p1", "none")>> }

Urls(peers_) == { peers_[i].url : i \in 1 .. Len(peers_) }

DeviceState(peers_, caps, conns) == [peers |-> peers_, caps |-> caps, conns |-> conns]

\* _setup_connection_to_peer
SetupConnectionToPeer(peer, coord, st) ==
  IF peer.type = "worker" /\ coord
    THEN [st EXCEPT !.conns = @ \cup {peer.url},
                    !.caps = DictSet(@, peer.url, peer.capabilities)]
  ELSE IF peer.type = "coordinator" /\ ~coord
    THEN [st EXCEPT !.conns = @ \cup {peer.url}]
  ELSE st

\* the branch test that also takes register on a node that is no coordinator
HandlesRegisterAnywhere(action, coord) ==
  action = "ping" \/ action = "register" \/ (action = "task" /\ ~coord)

\* the tests of the if / elif chain of _process_message
Handles(action, coord) ==
  action = "ping" \/ (action = "register" /\ coord) \/ (action = "task" /\ ~coord)

\* the default response
UnknownAction(action) == [status |-> "error", message |-> <<"Unknown action: ", action>>]

\* the register branch
Register(msg, coord, st) ==
  IF msg.node_type = "worker"
    THEN LET peer == PeerEntry("worker", msg.address, msg.port, msg.capabilities)
             added == [st EXCEPT !.peers = Append(@, peer),
                                 !.caps = DictSet(@, peer.url, peer.capabilities)]
         IN [reply |-> [status |-> "registered"],
             st |-> IF peer.url \notin Urls(st.peers)
                      THEN SetupConnectionToPeer(peer, coord, added)
                      ELSE st,
             raised |-> FALSE]
    ELSE [reply |-> [status |-> "error", message |-> <<"Invalid registration">>],
          st |-> st, raised |-> FALSE]

\* _process_message: the response, the state it leaves, and whether it raised
ProcessMessage(msg, coord, st) ==
  IF ~msg.isdict THEN [reply |-> NoReply, st |-> st, raised |-> TRUE]
  ELSE IF ~Handles(msg.action, coord)
    THEN [reply |-> UnknownAction(msg.action), st |-> st, raised |-> FALSE]
  ELSE IF msg.action = "ping"
    THEN [reply |-> [status |-> "ok"], st |-> st, raised |-> FALSE]
  ELSE IF msg.action = "register" THEN Register(msg, coord, st)
  ELSE IF msg.payload = "notdict" THEN [reply |-> NoReply, st |-> st, raised |-> TRUE]
  ELSE [reply |-> [status |-> "completed"], st |-> st, raised |-> FALSE]

\* one pass of message_loop that receives a message. After a request that
\* got no reply the REP socket refuses recv_json, and every later pass ends in
\* the except branch without a change of state
HandleMessage ==
  /\ nmsg < MaxMessages
  /\ rep_socket = "recv"
  /\ \E msg \in Messages :
       LET out == ProcessMessage(msg, is_coordinator,
                    DeviceState(dev_peers, worker_capabilities, peer_connections))
       IN /\ last_msg' = msg
          /\ response' = out.reply
          /\ dev_peers' = out.st.peers
          /\ worker_capabilities' = out.st.caps
          /\ peer_connections' = out.st.conns
          /\ rep_socket' = IF out.raised THEN "send" ELSE "recv"
  /\ nmsg' = nmsg + 1
  /\ UNCHANGED <<is_coordinator, disc_pc, disc_list, disc_i, schedVars, coreVars,
                 collectVars,
                 peerVars, taskVars>>

\* _start_discovery up to the return of _discover_peers
StartDiscovery ==
  /\ disc_pc = "idle"
  /\ \E l \in DiscoveredLists : disc_list' = l
  /\ disc_i' = 1
  /\ disc_pc' = "check"
  /\ UNCHANGED <<is_coordinator, dev_peers, worker_capabilities, peer_connections,
                 last_msg, response, nmsg, rep_socket, schedVars, coreVars, collectVars,
                 peerVars, taskVars>>

\* if peer["url"] not in [p["url"] for p in self.peers]
DiscoveryCheck ==
  /\ disc_pc = "check"
  /\ IF disc_i > Len(disc_list) THEN disc_pc' = "setup" /\ disc_i' = disc_i
     ELSE IF disc_list[disc_i].url \in Urls(dev_peers)
       THEN disc_pc' = "check" /\ disc_i' = disc_i + 1
     ELSE disc_pc' = "append" /\ disc_i' = disc_i
  /\ UNCHANGED <<is_coordinator, dev_peers, worker_capabilities, peer_connections,
                 last_msg, response, nmsg, rep_socket, disc_list, schedVars, coreVars,
                 collectVars,
                 peerVars, taskVars>>

\* self.peers.append(peer)
DiscoveryAppend ==
  /\ disc_pc = "append"
  /\ dev_peers' = Append(dev_peers, disc_list[disc_i])
  /\ disc_i' = disc_i + 1
  /\ disc_pc' = "check"
  /\ UNCHANGED <<is_coordinator, worker_capabilities, peer_connections, last_msg,
                 response, nmsg, rep_socket, disc_list, schedVars, coreVars, collectVars,
                 peerVars, taskVars>>

RECURSIVE SetupConnections(_, _, _, _)
SetupConnections(peers_, i, coord, st) ==
  IF i > Len(peers_) THEN st
  ELSE SetupConnections(peers_, i + 1, coord, SetupConnectionToPeer(peers_[i], coord, st))

\* _setup_connections and the end of _start_discovery
DiscoverySetup ==
  /\ disc_pc = "setup"
  /\ LET st == SetupConnections(dev_peers, 1, is_coordinator,
                 DeviceState(dev_peers, worker_capabilities, peer_connections))
     IN /\ worker_capabilities' = st.caps
        /\ peer_connections' = st.conns
  /\ disc_pc' = "done"
  /\ UNCHANGED <<is_coordinator, dev_peers, last_msg, response, nmsg, rep_socket, disc_list,
                 disc_i, schedVars, coreVars, collectVars,
                 peerVars, taskVars>>

NoUrl == <<>>

\* the register branch on the handler thread up to the stored capabilities:
\* the record of a new worker is appended, its connection is still to come
RegisterAppend ==
  /\ nmsg < MaxMessages
  /\ rep_socket = "recv"
  /\ is_coordinator
  /\ \E msg \in Registrations :
       LET peer == PeerEntry("worker", msg.address, msg.port, msg.capabilities)
       IN /\ msg.node_type = "worker"
          /\ peer.url \notin Urls(dev_peers)
          /\ last_msg' = msg
          /\ dev_peers' = Append(dev_peers, peer)
          /\ worker_capabilities' = DictSet(worker_capabilities, peer.url, peer.capabilities)
          /\ reg_pending' = peer.url
  /\ nmsg' = nmsg + 1
  /\ rep_socket' = "send"
  /\ UNCHANGED <<schedVars, coreVars, collectVars, is_coordinator, peer_connections,
                 response, disc_pc, disc_list, disc_i, peerVars, dt_out, dt_sent>>

\* the rest of the branch: _setup_connection_to_peer(self.peers[-1]) and the
\* reply
RegisterConnect ==
  /\ reg_pending # NoUrl
  /\ peer_connections' = peer_connections \cup {reg_pending}
  /\ response' = [status |-> "registered"]
  /\ rep_socket' = "recv"
  /\ reg_pending' = NoUrl
  /\ UNCHANGED <<schedVars, coreVars, collectVars, is_coordinator, dev_peers,
                 worker_capabilities, last_msg, nmsg, disc_pc, disc_list, disc_i,
                 peerVars, dt_out, dt_sent>>

\* distribute_task has not been called
NoCall == [none |-> TRUE]

\* capabilities["score"] of the capabilities a worker registers with; a
\* worker without recorded capabilities counts 0
CapabilityScore(capabilities) ==
  IF capabilities = "c1" THEN 50 ELSE IF capabilities = "c2" THEN 80 ELSE 0

\* self.worker_capabilities.get(w["url"], {}).get("score", 0)
WorkerScore(w, caps) ==
  IF DictHas(caps, w.url) THEN CapabilityScore(DictGet(caps, w.url)) ELSE 0

\* max(workers, key=...): the first of the workers with the highest score
FirstMax(workers, caps) ==
  CHOOSE i \in 1 .. Len(workers) :
    /\ \A j \in 1 .. Len(workers) : WorkerScore(workers[j], caps) <= WorkerScore(workers[i], caps)
    /\ \A j \in 1 .. i - 1 : WorkerScore(workers[j], caps) < WorkerScore(workers[i], caps)

\* send_task_to_worker(worker_url, ...)
SendTaskToWorker(worker_url, coord, conns) ==
  IF ~coord THEN [raised |-> "Only coordinator nodes can send tasks to workers", sent |-> <<>>]
  ELSE IF worker_url \notin conns
    THEN [raised |-> "No connection to worker", sent |-> <<>>]
  ELSE [raised |-> "none", sent |-> <<worker_url>>]

\* distribute_task(task_id, task_type, data)
DistributeTaskCall(coord, peers_, caps, conns) ==
  LET isWorker(peer) == peer.type = "worker"
      workers == SelectSeq(peers_, isWorker)
  IN IF ~coord
       THEN [raised |-> "Only coordinator nodes can distribute tasks", sent |-> <<>>]
     ELSE IF peers_ = <<>>
       THEN [raised |-> "No workers available to process task", sent |-> <<>>]
     ELSE IF workers = <<>>
       THEN [raised |-> "No worker nodes available", sent |-> <<>>]
     ELSE LET worker_url == workers[FirstMax(workers, caps)].url
              send == SendTaskToWorker(worker_url, coord, conns)
          IN IF send.raised # "none" THEN send
             ELSE [raised |-> "none", sent |-> send.sent, worker |-> worker_url]

\* a call of distribute_task by the thread that also calls _start_discovery
DistributeTask ==
  /\ dt_out = NoCall
  /\ disc_pc \in {"idle", "done"}
  /\ \E out \in {DistributeTaskCall(is_coordinator, dev_peers, worker_capabilities,
                                       peer_connections)} :
       /\ dt_out' = IF out.raised # "none" THEN [raised |-> out.raised]
                                            ELSE [raised |-> "none", worker |-> out.worker]
       /\ dt_sent' = out.sent
  /\ UNCHANGED <<schedVars, coreVars, collectVars, is_coordinator, dev_peers,
                 worker_capabilities, peer_connections, last_msg, response, nmsg,
                 rep_socket, disc_pc, disc_list, disc_i, peerVars, reg_pending>>

\* ------------------------------------------------- run_peer (peer, gradio_ui)
\* a message without the key 'task'
NoTaskList == -1

\* a message is a JSON object; a type it does not have is "none", and its
\* 'task' value is the length of the list it carries
PeerMessage(type, task) == [type |-> type, task |-> task]

PeerMessages ==
  { PeerMessage(t, k) : t \in {"ping", "task", "result", "none"},
                        k \in {NoTaskList, 0, 1, 2} }

\* the if / elif chain of the loop body: the reply it sends, if any, and
\* whether message['task'] raised
PeerReply(message) ==
  IF message.type = "ping" THEN [sent |-> TRUE, raised |-> FALSE, status |-> "Active"]
  ELSE IF message.type = "task"
    THEN IF message.task = NoTaskList
           THEN [sent |-> FALSE, raised |-> TRUE]
           ELSE [sent |-> TRUE, raised |-> FALSE, detections |-> message.task]
  ELSE [sent |-> FALSE, raised |-> FALSE]

\* one pass of the while loop that receives a message
PeerServe ==
  /\ rp_pc = "serving"
  /\ rp_socket = "recv"
  /\ Len(rp_served) < MaxMessages
  /\ \E message \in PeerMessages :
       \E reply \in {PeerReply(message)} :
         /\ rp_served' = Append(rp_served, [message |-> message, reply |-> reply])
         /\ rp_socket' = IF reply.sent THEN "recv" ELSE "send"
         /\ rp_pc' = IF reply.raised THEN "down" ELSE "serving"
  /\ UNCHANGED <<schedVars, coreVars, collectVars, is_coordinator, dev_peers,
                 worker_capabilities, peer_connections, last_msg, response, nmsg,
                 rep_socket, disc_pc, disc_list, disc_i, taskVars>>

\* a pass whose recv_json is refused because the last request has no reply:
\* the ZMQError leaves the loop through the except branch and finally
PeerRecvRefused ==
  /\ rp_pc = "serving"
  /\ rp_socket = "send"
  /\ rp_pc' = "down"
  /\ UNCHANGED <<rp_socket, rp_served>>
  /\ UNCHANGED <<schedVars, coreVars, collectVars, is_coordinator, dev_peers,
                 worker_capabilities, peer_connections, last_msg, response, nmsg,
                 rep_socket, disc_pc, disc_list, disc_i, taskVars>>

NextPeer == PeerServe \/ PeerRecvRefused

InitRest ==
  /\ task_assignments = <<>>
  /\ reassigned_tasks = {}
  /\ task_list = <<>>
  /\ op = "init"
  /\ env = NoReading
  /\ ret = <<>>
  /\ sorted_devices = <<>>
  /\ failed_devices = <<>>
  /\ nreassign = 0
  /\ tasks_to_reassign = <<>>
  /\ score_out = NoScore
  /\ num_partitions = NoRequest
  /\ core_peers = [p \in PeerIds |-> NoPeer]
  /\ running = TRUE
  /\ monitor_pc = "sleep"
  /\ discover_i = 0
  /\ probe = [p \in PeerIds |-> NoProbe]
  /\ answered = {}
  /\ peer_lock = {}
  /\ mon_i = 0
  /\ mon_stage = "none"
  /\ reader_pc = "idle"
  /\ torn = {}
  /\ c_pc = "idle"
  /\ pending_devices = <<>>
  /\ results = {}
  /\ elapsed = 0
  /\ dispatched = [d \in Devices |-> {}]
  /\ finished = [d \in Devices |-> {}]
  /\ assigned_ids = {}
  /\ moved_done = {}
  /\ ready_at_poll = {}
  /\ returned = NoReturn
  /\ send_status = <<>>
  /\ send_log = <<>>
  /\ dev_peers = <<>>
  /\ worker_capabilities = <<>>
  /\ peer_connections = {}
  /\ last_msg = NoMessage
  /\ response = NoReply
  /\ rep_socket = "recv"
  /\ rp_pc = "serving"
  /\ rp_socket = "recv"
  /\ rp_served = <<>>
  /\ dt_out = NoCall
  /\ dt_sent = <<>>
  /\ reg_pending = NoUrl
  /\ nmsg = 0
  /\ disc_pc = "idle"
  /\ disc_list = <<>>
  /\ disc_i = 1

\* EdgeShiftCore and run.py make their node a coordinator
Init == is_coordinator = TRUE /\ profile_in = NoProfile /\ InitRest

\* an EdgeDevice of either role
InitDevice == is_coordinator \in BOOLEAN /\ profile_in = NoProfile /\ InitRest

\* a scheduler about to score one profile
InitScore == is_coordinator = TRUE /\ profile_in \in ScoreProfiles /\ InitRest

NextScore == Score /\ UNCHANGED <<coreVars, collectVars, deviceVars>>

SpecScore == InitScore /\ [][NextScore]_vars

\* a submission: distribute_tasks on a fresh scheduler
Distribute ==
  /\ op = "init"
  /\ \E tl \in TaskLists, e \in Readings : DistributeTasks(tl, e)
  /\ nreassign' = 0
  /\ UNCHANGED num_partitions
  /\ UNCHANGED <<coreVars, collectVars, deviceVars>>

\* the failure handling of collect_results: check_device_health, reassign_tasks
Reassign ==
  /\ op # "init"
  /\ nreassign < MaxReassign
  /\ \E e \in Readings : ReassignTasks(CheckDeviceHealth(e), e)
  /\ nreassign' = nreassign + 1
  /\ UNCHANGED <<coreVars, collectVars, deviceVars>>

Next == Distribute \/ Reassign

Spec == Init /\ [][Next]_vars

\* the first reassign_tasks call after a distribution
ReassignOnce ==
  /\ op = "distribute"
  /\ nreassign = 0
  /\ \E e \in Readings : ReassignTasks(CheckDeviceHealth(e), e)
  /\ nreassign' = 1
  /\ UNCHANGED <<coreVars, collectVars, deviceVars>>

\* the same call again: the same failed_devices, and the devices as they were
ReassignAgain ==
  /\ op = "reassign"
  /\ nreassign = 1
  /\ ReassignTasks(failed_devices, env)
  /\ nreassign' = 2
  /\ UNCHANGED <<coreVars, collectVars, deviceVars>>

NextRepeat == Distribute \/ ReassignOnce \/ ReassignAgain

SpecRepeat == Init /\ [][NextRepeat]_vars

NextSend == Distribute \/ SendTasks

SpecSend == Init /\ [][NextSend]_vars

\* a call of assign_image_partitions on a fresh scheduler
AssignPartitions ==
  /\ op = "init"
  /\ \E e \in Readings, pat \in ImagePatterns, requested \in Requests :
       AssignImagePartitions(e, pat, requested)
  /\ UNCHANGED <<nreassign, coreVars, collectVars, deviceVars>>

SpecPartition == Init /\ [][AssignPartitions]_vars

\* the first loop of a reassign_tasks call of collect_results
ReassignFirstLoop ==
  /\ op # "init"
  /\ nreassign < MaxReassign
  /\ \E e \in Readings : ReassignPull(CheckDeviceHealth(e), e)
  /\ nreassign' = nreassign + 1
  /\ UNCHANGED <<coreVars, collectVars, deviceVars>>

\* the rest of that call
ReassignRest ==
  /\ ReassignPlace
  /\ UNCHANGED <<nreassign, coreVars, collectVars, deviceVars>>

\* the scheduler with reassign_tasks at the grain of its loops
NextSteps == Distribute \/ ReassignFirstLoop \/ ReassignRest

SpecSteps == Init /\ [][NextSteps]_vars

NextMonitor ==
  \/ MonitorWake
  \/ MonitorCycle
  \/ TimePasses
  \/ DiscoverWake
  \/ DiscoverPeer
  \/ Stop

SpecMonitor == Init /\ [][NextMonitor]_vars

\* the same threads, with the history of the answered heartbeats
NextDirectory ==
  \/ MonitorWake
  \/ MonitorCycleHeard
  \/ TimePasses
  \/ DiscoverWake
  \/ DiscoverPeer
  \/ Stop

SpecDirectory == Init /\ [][NextDirectory]_vars

NextCollect ==
  \/ SubmitImage
  \/ DeviceCompletes
  \/ CollectStart
  \/ CollectIteration
  \/ CollectReturn

SpecCollect == Init /\ [][NextCollect]_vars

\* an image job on a node that has run a job before
NextSecondJob == EarlierSubmission \/ NextCollect

SpecSecondJob == Init /\ [][NextSecondJob]_vars

NextDevice ==
  \/ HandleMessage
  \/ StartDiscovery
  \/ DiscoveryCheck
  \/ DiscoveryAppend
  \/ DiscoverySetup

SpecDevice == InitDevice /\ [][NextDevice]_vars

\* a node whose caller hands out one task while its handler thread registers
\* workers, the register branch taken in one step or in two
NextTask ==
  \/ dt_out = NoCall /\ NextDevice
  \/ dt_out = NoCall /\ RegisterAppend
  \/ RegisterConnect
  \/ DistributeTask

SpecTask == InitDevice /\ [][NextTask]_vars

SpecPeer == Init /\ [][NextPeer]_vars

\* a node that is stopped while its monitor and message loops run
NextShutdown ==
  \/ Stop
  \/ MonitorWake
  \/ MonitorCycle
  \/ HandleMessage

SpecShutdown == Init /\ [][NextShutdown]_vars

\* the discovery, monitor and status threads of EdgeShiftCore around peer_lock
NextLock ==
  \/ MonitorWake
  \/ MonitorEnter
  \/ MonitorWriteStatus
  \/ MonitorWriteRest
  \/ MonitorLeave
  \/ TimePasses
  \/ DiscoverWake
  \/ LockedDiscoverPeer
  \/ ReaderEnter
  \/ ReaderRead

SpecLock == Init /\ [][NextLock]_vars

\* EdgeShiftCore (gradio_ui) and the image job (run.py) are two programs: a
\* behaviour runs the threads of the first or one job of the second
JobIdle == c_pc = "idle" /\ op = "init"

CoreIdle ==
  /\ running
  /\ monitor_pc = "sleep"
  /\ discover_i = 0
  /\ Known(core_peers) = {}
  /\ probe = [p \in PeerIds |-> NoProbe]
  /\ answered = {}

NextLoops ==
  \/ JobIdle /\ NextMonitor
  \/ CoreIdle /\ NextCollect

SpecLoops == Init /\ [][NextLoops]_vars

\* the thread that runs collect_results keeps running
SpecCollectLive ==
  /\ SpecCollect
  /\ WF_vars(CollectStart)
  /\ WF_elapsed(CollectPass)
  /\ WF_vars(CollectReturn)

\* ================================================================= claims
\* all tasks of an assignment, entry after entry
RECURSIVE Flatten(_)
Flatten(d) == IF d = <<>> THEN <<>> ELSE Head(d).v \o Flatten(Tail(d))

HeldIds(d) == TaskIds(Flatten(d))

Occurrences(d, id) ==
  LET all == Flatten(d) IN Cardinality({ i \in 1 .. Len(all) : all[i].id = id })

EntryOf(d, key) == IF DictHas(d, key) THEN DictGet(d, key) ELSE <<>>

HoldersOf(d, id) == { i \in 1 .. Len(d) : id \in TaskIds(d[i].v) }

Weights(ts) == [i \in 1 .. Len(ts) |-> ts[i].weight]

\* the scored devices left once the failed ones are dropped
Healthy(e, failed) == DictKeySet(DropFailed(failed, 1, GetDeviceScores(e)))

Pulled(assignments, failed) == PullTasks(failed, 1, assignments, <<>>).pulled

\* C1: for a non-empty task list and a non-empty set of scored devices the
\* assignment returned by distribute_tasks covers every submitted task exactly
\* once: the entry lengths sum to len(tasks) and no task id is in two entries.
C1_DistributeCoversEveryTask ==
  (op = "distribute" /\ task_list # <<>> /\ sorted_devices # <<>>) =>
    /\ Len(Flatten(ret)) = Len(task_list)
    /\ \A id \in TaskIds(task_list) : Occurrences(ret, id) <= 1

\* C2: a reassign_tasks call may move a task between entries of
\* task_assignments, but never drops it and never puts it in two entries.
C2_ReassignKeepsEveryTask ==
  [][op' = "reassign" =>
       \A id \in HeldIds(task_assignments) :
         Occurrences(task_assignments', id) = Occurrences(task_assignments, id)]_vars

\* C3: with devices scored 50, 30, 20 and five tasks of weights 5,4,3,2,1 the
\* first device gets the tasks of weight 5 and 4, the second the task of weight
\* 3 and the third the tasks of weight 2 and 1.
C3_ExampleCounts ==
  (/\ op = "distribute"
   /\ [i \in 1 .. Len(sorted_devices) |-> sorted_devices[i].v] = <<500, 300, 200>>
   /\ Weights(SortTasks(task_list)) = <<5, 4, 3, 2, 1>>) =>
    /\ Len(ret) = 3
    /\ Weights(EntryOf(ret, sorted_devices[1].k)) = <<5, 4>>
    /\ Weights(EntryOf(ret, sorted_devices[2].k)) = <<3>>
    /\ Weights(EntryOf(ret, sorted_devices[3].k)) = <<2, 1>>

\* C4: when reassign_tasks is called with failed devices and a healthy scored
\* device remains, every task of a failed device's entry ends up in exactly one
\* entry, that of a healthy device; the failed devices have no entry; and the
\* tasks of the other devices are still in their entries: nothing is lost or
\* duplicated.
C4_ReassignToHealthy ==
  [][(/\ op' = "reassign"
      /\ failed_devices' # <<>>
      /\ Healthy(env', failed_devices') # {}) =>
       LET before == task_assignments
           after == task_assignments'
           healthy == Healthy(env', failed_devices')
           failed == SeqSet(failed_devices')
           pulled == TaskIds(Pulled(before, failed_devices'))
       IN /\ \A f \in failed : ~DictHas(after, f)
          /\ \A id \in pulled :
               \A i \in HoldersOf(after, id) : after[i].k \in healthy
          /\ \A i \in 1 .. Len(before) :
               before[i].k \notin failed =>
                 LET kept == EntryOf(after, before[i].k)
                 IN /\ Len(kept) >= Len(before[i].v)
                    /\ SubSeq(kept, 1, Len(before[i].v)) = before[i].v
          /\ \A id \in HeldIds(before) :
               Occurrences(after, id) = Occurrences(before, id)
          /\ HeldIds(after) = HeldIds(before)]_vars

\* a reassignment that moved tasks of a failed device onto a healthy device
\* that already held tasks
C4_Witness ==
  /\ op = "reassign"
  /\ failed_devices # <<>>
  /\ ret # <<>>
  /\ \E i \in 1 .. Len(ret) :
       Len(EntryOf(task_assignments, ret[i].k)) > Len(ret[i].v)

\* C5: when reassign_tasks has pulled tasks from failed devices and no healthy
\* device remains, the ids of the pulled tasks are returned to the caller as
\* unassignable and the tasks are not dropped from the scheduler's state.
C5_UnassignableReported ==
  [][(/\ op' = "reassign"
      /\ Pulled(task_assignments, failed_devices') # <<>>
      /\ Healthy(env', failed_devices') = {}) =>
       /\ TaskIds(Pulled(task_assignments, failed_devices')) \subseteq HeldIds(ret')
       /\ TaskIds(Pulled(task_assignments, failed_devices')) \subseteq
            HeldIds(task_assignments')]_vars
\* C6: in the health monitor, a peer whose heartbeat failed is Disconnected
\* until the next cycle probes it, and a peer whose heartbeat failed while its
\* last_seen was older than the grace period is gone from the directory and
\* from the active peers.
C6_FailedHeartbeat ==
  \A p \in PeerIds :
    probe[p].failed =>
      IF probe[p].stale
        THEN core_peers[p] = NoPeer /\ p \notin ActivePeers(core_peers)
        ELSE core_peers[p] # NoPeer /\ core_peers[p].status = "Disconnected"

C6_Witness ==
  \E p, q \in PeerIds :
    /\ probe[p].failed /\ probe[p].stale /\ core_peers[p] = NoPeer
    /\ probe[q].failed /\ ~probe[q].stale
    /\ core_peers[q] # NoPeer /\ core_peers[q].status = "Disconnected"

\* C7: whenever the health monitor removes a peer after the grace period, the
\* peer is handed to reassign_tasks as a failed device.
C7_RemovalReported ==
  [][\A p \in PeerIds :
       (core_peers[p] # NoPeer /\ core_peers'[p] = NoPeer) =>
         /\ op' = "reassign"
         /\ \E i \in 1 .. Len(failed_devices') : failed_devices'[i] = p]_vars

\* C8: collect_results always terminates: once it is in its loop it returns
\* the results gathered so far, and no pass of the loop has started after the
\* elapsed time reached the timeout, even with a peer that never reports.
C8_CollectTerminates ==
  (c_pc = "loop") ~>
    (c_pc = "done" /\ elapsed <= CollectTimeout /\ returned = [results |-> results])

C8_Witness ==
  /\ c_pc = "done"
  /\ elapsed = CollectTimeout
  /\ pending_devices # <<>>
  /\ \E i \in 1 .. Len(pending_devices) :
       dispatched[pending_devices[i]] # {} /\ finished[pending_devices[i]] = {}

\* C9: when collect_results returns at the deadline, the return value holds the
\* result map and a set of missing ids, and every task id of the assignment is
\* in one of them.
C9_MissingIdsReturned ==
  (c_pc = "done" /\ elapsed >= CollectTimeout /\ pending_devices # <<>>) =>
    /\ "missing" \in DOMAIN returned
    /\ \A id \in assigned_ids : id \in returned.results \/ id \in returned.missing

\* C10: a task that was moved to a healthy device during collect_results and
\* was finished there when a later pass of the loop polled is in the returned
\* map.
C10_NewOwnerPolled ==
  c_pc = "done" => ready_at_poll \subseteq returned.results

\* C11: a task assigned to the local node that the local worker has finished
\* when a pass of the collect_results loop runs is in the result map after
\* that pass, whatever the interleaving of worker and collector.
C11_LocalResultsCollected ==
  [][(c_pc = "loop" /\ elapsed' # elapsed) =>
       ((dispatched[Local] \ reassigned_tasks') \cap finished[Local]) \subseteq results']_vars

SizeBefore(d, i) == Len(Flatten(SubSeq(d, 1, i - 1)))

\* C12: in the assignment distribute_tasks returns, the entries follow the
\* devices in descending-score order, and every task of an earlier device
\* weighs at least as much as every task of a later device.
C12_HeavyTasksOnBestDevices ==
  (op = "distribute" /\ sorted_devices # <<>>) =>
    /\ \A i \in 1 .. Len(sorted_devices) - 1 : sorted_devices[i].v >= sorted_devices[i + 1].v
    /\ \A i \in 1 .. Len(ret) : ret[i].k = sorted_devices[i].k
    /\ \A i, j \in 1 .. Len(ret) :
         i < j => \A a \in 1 .. Len(ret[i].v), b \in 1 .. Len(ret[j].v) :
                    ret[i].v[a].weight >= ret[j].v[b].weight

C12_Witness ==
  /\ op = "distribute"
  /\ Len(ret) >= 2
  /\ ret[1].v # <<>> /\ ret[2].v # <<>>
  /\ ret[1].v[1].weight > ret[2].v[1].weight
  /\ task_list[1].weight < task_list[Len(task_list)].weight

\* C13: in the proportional branch with a non-empty task list, every device
\* visited gets at least one task and at most the tasks remaining at its turn,
\* devices are only skipped once no task remains, and the total never exceeds
\* len(tasks).
C13_ProportionalCounts ==
  (op = "distribute" /\ sorted_devices # <<>> /\ SumScores(sorted_devices) > 0
     /\ task_list # <<>>) =>
    /\ \A i \in 1 .. Len(ret) :
         /\ Len(ret[i].v) >= 1
         /\ Len(ret[i].v) <= Len(task_list) - SizeBefore(ret, i)
    /\ Len(ret) < Len(sorted_devices) => Len(Flatten(ret)) = Len(task_list)
    /\ Len(Flatten(ret)) <= Len(task_list)

C13_Witness ==
  /\ op = "distribute"
  /\ SumScores(sorted_devices) > 0
  /\ Len(ret) = 3
  /\ ShareCount(sorted_devices[3].v, SumScores(sorted_devices), Len(task_list)) = 0
  /\ Len(ret[3].v) = 1

\* C14: when every score is 0, n tasks over k devices give each device
\* floor(n/k) tasks and the first n mod k devices one more; every task is
\* covered exactly once and the entry sizes differ by at most 1.
C14_EvenSplit ==
  (op = "distribute" /\ sorted_devices # <<>> /\ SumScores(sorted_devices) = 0) =>
    LET n == Len(task_list)
        k == Len(sorted_devices)
    IN /\ Len(ret) = k
       /\ \A i \in 1 .. k :
            /\ ret[i].k = sorted_devices[i].k
            /\ Len(ret[i].v) = (n \div k) + (IF i <= n % k THEN 1 ELSE 0)
       /\ \A id \in TaskIds(task_list) : Occurrences(ret, id) = 1
       /\ \A i, j \in 1 .. k : Len(ret[i].v) - Len(ret[j].v) <= 1

C14_Witness ==
  /\ op = "distribute"
  /\ Len(sorted_devices) = 3
  /\ SumScores(sorted_devices) = 0
  /\ Len(task_list) = 5
  /\ Len(ret[1].v) = 2 /\ Len(ret[2].v) = 2 /\ Len(ret[3].v) = 1

\* the pulled tasks number j, j + k, j + 2k, ... in the order they were pulled
EveryKth(pulled, j, k) ==
  [m \in 1 .. (IF j > Len(pulled) THEN 0 ELSE (Len(pulled) - j) \div k + 1) |->
     pulled[j + (m - 1) * k]]

\* C15: reassign_tasks places the i-th pulled task on healthy device number
\* i mod k of the descending-score order and appends the placed tasks to the
\* entry the device already has, whose tasks stay first and in their order.
C15_RoundRobinMerge ==
  [][(op' = "reassign" /\ Pulled(task_assignments, failed_devices') # <<>>
        /\ Healthy(env', failed_devices') # {}) =>
       LET pulled == Pulled(task_assignments, failed_devices')
           sd == sorted_devices'
           k == Len(sd)
           failed == SeqSet(failed_devices')
       IN /\ DictKeySet(sd) = Healthy(env', failed_devices')
          /\ \A j \in 1 .. k - 1 : sd[j].v >= sd[j + 1].v
          /\ \A j \in 1 .. k :
               EntryOf(ret', sd[j].k) = EveryKth(pulled, j, k)
          /\ \A d \in Devices \ failed :
               EntryOf(task_assignments', d) =
                 EntryOf(task_assignments, d) \o EntryOf(ret', d)
          /\ \A d \in failed : ~DictHas(task_assignments', d)]_vars

C15_Witness ==
  /\ op = "reassign"
  /\ Len(sorted_devices) = 2
  /\ Len(ret) = 2
  /\ Len(ret[1].v) >= 2
  /\ Len(EntryOf(task_assignments, ret[1].k)) > Len(ret[1].v)

RecordsOf(peers_, url) == { i \in 1 .. Len(peers_) : peers_[i].url = url }

IsRegistration(msg) == msg.isdict /\ msg.action = "register"

\* C17: once a coordinator has handled a register message of worker P, its
\* peer list holds exactly one record for P's endpoint, with P's address and
\* port, however many register messages the endpoint sends.
C17_OneRecordPerEndpoint ==
  (is_coordinator /\ IsRegistration(last_msg) /\ last_msg.node_type = "worker") =>
    LET mine == RecordsOf(dev_peers, Url(last_msg.address, last_msg.port))
    IN /\ Cardinality(mine) = 1
       /\ \A i \in mine : /\ dev_peers[i].address = last_msg.address
                          /\ dev_peers[i].port = last_msg.port

\* C18: a registration with a wrong or missing node type, without address or
\* port, or of an endpoint that is registered already, is answered with
\* status "error" and leaves peers, worker capabilities and connections as
\* they were.
C18_BadRegistrationRejected ==
  [][(nmsg' # nmsg /\ is_coordinator /\ IsRegistration(last_msg')
        /\ \/ last_msg'.node_type # "worker"
           \/ last_msg'.address = "none"
           \/ last_msg'.port = "none"
           \/ Url(last_msg'.address, last_msg'.port) \in Urls(dev_peers)) =>
       /\ response'.status = "error"
       /\ UNCHANGED <<dev_peers, worker_capabilities, peer_connections>>]_vars

\* C19: a message whose action the node does not handle in its role is
\* answered with the error reply that names the action, without raising, and
\* leaves peers, worker capabilities and connections as they were.
C19_UnknownActionReply ==
  [][(nmsg' # nmsg /\ last_msg'.isdict
        /\ ~(\/ last_msg'.action = "ping"
             \/ last_msg'.action = "register" /\ is_coordinator
             \/ last_msg'.action = "task" /\ ~is_coordinator)) =>
       /\ response' = [status |-> "error",
                       message |-> <<"Unknown action: ", last_msg'.action>>]
       /\ UNCHANGED <<dev_peers, worker_capabilities, peer_connections>>]_vars

C19_Witness ==
  /\ ~is_coordinator
  /\ IsRegistration(last_msg)
  /\ response.status = "error"
  /\ nmsg >= 2
  /\ dev_peers # <<>>

\* C20: once the stop signal is raised, no loop starts another pass: the
\* monitor loop does not pass its while test again, the message loop receives
\* no further message, and the peer sockets are closed.
C20_LoopsObserveStop ==
  [][~running =>
       /\ monitor_pc = "sleep" => monitor_pc' = "sleep"
       /\ nmsg' = nmsg
       /\ \A p \in Known(core_peers') : core_peers'[p].socket = "closed"]_vars

\* C21: no failure ends the monitor loop or the collecting loop. A monitor
\* cycle, whatever its heartbeats met, leaves every peer of the directory as
\* a heartbeat leaves it and leaves the loop at its while test; a pass of the collecting loop,
\* whatever its health check, its polls and its redispatch met, leaves the
\* loop running, and the loop is only left once no device is pending or the
\* deadline has passed.
C21_LoopsSurviveFailures ==
  [][/\ monitor_pc' # "dead"
     /\ (monitor_pc = "cycle" /\ monitor_pc' # "cycle") =>
          /\ monitor_pc' = "sleep"
          /\ \A p \in Known(core_peers) : \E r \in Replies :
               /\ probe'[p].failed = ProbeFails(core_peers[p], r)
               /\ \/ core_peers'[p] = NoPeer
                  \/ core_peers'[p] = Probed(core_peers[p], r)
     /\ (c_pc = "loop" /\ elapsed' # elapsed) => c_pc' = "loop"
     /\ (c_pc = "loop" /\ c_pc' # "loop") =>
          (pending_devices = <<>> \/ elapsed >= CollectTimeout)]_vars

\* the monitor is in the cycle after one in which the heartbeat of the first
\* peer failed with a reply that was no JSON and the second peer answered
C21_Witness ==
  /\ monitor_pc = "cycle"
  /\ probe[1].failed
  /\ core_peers[1] # NoPeer /\ core_peers[1].socket = "ready"
  /\ ~probe[NumPeers].failed
  /\ core_peers[NumPeers] # NoPeer /\ core_peers[NumPeers].status = "Active"

\* C22: a peer that a failed heartbeat made Disconnected and that is still
\* within the grace period can answer the heartbeat of the next cycle over the
\* connection it has: that cycle can leave it Active with a fresh last_seen,
\* still in the directory.
C22_DisconnectedPeerRecovers ==
  \A p \in PeerIds :
    (/\ running
     /\ monitor_pc = "cycle"
     /\ core_peers[p] # NoPeer
     /\ core_peers[p].status = "Disconnected"
     /\ probe[p].failed
     /\ ~Expired(core_peers[p].age)) =>
      ENABLED (/\ MonitorCycle
               /\ core_peers'[p] # NoPeer
               /\ core_peers'[p].status = "Active"
               /\ core_peers'[p].age = 0)

\* C23: the status of every peer record of the directory is Active or
\* Disconnected, whatever the peers reply to the heartbeats.
C23_StatusActiveOrDisconnected ==
  \A p \in Known(core_peers) : core_peers[p].status \in {"Active", "Disconnected"}

\* C24: a peer that is in the directory with status Active, and so is given
\* tasks by _distribute_tasks, has answered a request before.
C24_ActiveOnlyAfterAnswer ==
  \A p \in ActivePeers(core_peers) : p \in answered

\* what a record stores apart from the age of its last_seen
Stored(rec) == IF rec = NoPeer THEN NoPeer ELSE [status |-> rec.status, socket |-> rec.socket]

\* C25: peer_lock serializes the accesses to the peer directory: at most one
\* thread is inside the lock, a record is partly written only while the
\* monitor is inside, the directory changes only in a step of the thread that
\* is inside (or gets in for that step), and no row get_device_status
\* returned was read from a partly written record.
C25_DirectorySerialized ==
  [][/\ Cardinality(peer_lock') <= 1
     /\ mon_stage' # "none" => peer_lock' = {"monitor"}
     /\ reader_pc' = "locked" => peer_lock' = {"reader"}
     /\ (\E p \in PeerIds :
            \/ Stored(core_peers'[p]) # Stored(core_peers[p])
            \/ core_peers[p] # NoPeer /\ core_peers'[p].age < core_peers[p].age) =>
          (peer_lock = {"monitor"} \/ (peer_lock = {} /\ peer_lock' = {}))
     /\ (reader_pc = "locked" /\ reader_pc' = "done") => peer_lock = {"reader"}
     /\ torn' = {}]_vars

\* get_device_status has been called before, and the monitor has written the
\* status of a peer and not yet its last_seen
C25_Witness ==
  /\ mon_stage = "ok"
  /\ reader_pc = "done"
  /\ \E p \in PeerIds : core_peers[p] # NoPeer /\ mon_i = p /\ core_peers[p].age > 0

\* C26: the assignment a reader of task_assignments sees never lacks a task
\* that reassign_tasks is moving: while a call holds pulled tasks, every one
\* of them is in an entry of task_assignments.
C26_NoPartialAssignment ==
  TaskIds(tasks_to_reassign) \subseteq HeldIds(task_assignments)

\* C27: for every profile with cpu and memory usage in 0..100 and a battery
\* in 0..100 or none, the score depends on the profile alone and is at least
\* 0; a profile with less cpu or less memory in use never scores lower; and
\* {cpu 0, mem 0, battery 100} scores more than {cpu 100, mem 100, battery 0}.
C27_ScoreOrdered ==
  score_out # NoScore =>
    /\ score_out = CalculateDeviceScore(profile_in)
    /\ score_out >= 0
    /\ profile_in # NoProfile =>
         /\ \A c \in Percents : c <= profile_in.cpu_percent =>
              CalculateDeviceScore([profile_in EXCEPT !.cpu_percent = c]) >= score_out
         /\ \A m_ \in Percents : m_ <= profile_in.memory_percent =>
              CalculateDeviceScore([profile_in EXCEPT !.memory_percent = m_]) >= score_out
    /\ profile_in = Profile(100, 100, 0) =>
         CalculateDeviceScore(Profile(0, 0, 100)) > score_out
    /\ profile_in = Profile(0, 0, 100) =>
         score_out > CalculateDeviceScore(Profile(100, 100, 0))

C27_Witness ==
  /\ profile_in = Profile(0, 0, 100)
  /\ score_out = 915

\* the bonus as the intervals of the battery level give it
IntervalBonus(battery) ==
  IF battery = NoBattery THEN 0
  ELSE IF battery > 80 THEN 15
  ELSE IF battery > 50 /\ battery <= 80 THEN 10
  ELSE IF battery > 20 /\ battery <= 50 THEN 5
  ELSE 0

\* C28: the score is 0.5*(100-cpu) + 0.4*(100-mem) + 0.1*bonus, with bonus 15
\* for a battery above 80, 10 in (50,80], 5 in (20,50] and 0 for a battery of
\* at most 20 or none; a missing profile scores 0. (Both sides times 10.)
C28_ScoreFormula ==
  score_out # NoScore =>
    score_out =
      IF profile_in = NoProfile THEN 0
      ELSE 5 * (100 - profile_in.cpu_percent) + 4 * (100 - profile_in.memory_percent)
             + IntervalBonus(profile_in.battery)

C28_Witness ==
  /\ profile_in # NoProfile
  /\ profile_in.battery = 80
  /\ profile_in.cpu_percent = 100 /\ profile_in.memory_percent = 100
  /\ score_out = 10

\* C29: assign_image_partitions creates exactly n tasks when n >= 1 is
\* requested, and exactly one when n <= 0 is requested or when n is left to
\* the default and no device is available; the task ids are pairwise
\* distinct, the partition indices are 0..n-1 and every weight is an integer
\* in 1..10.
C29_PartitionTasks ==
  op = "distribute" =>
    LET n == Len(task_list)
    IN /\ num_partitions # NoRequest =>
            n = (IF num_partitions.n >= 1 THEN num_partitions.n ELSE 1)
       /\ (num_partitions = NoRequest /\ GetDeviceScores(env) = <<>>) => n = 1
       /\ n >= 1
       /\ \A i, j \in 1 .. n : i # j => task_list[i].id # task_list[j].id
       /\ { task_list[i].partition_index : i \in 1 .. n } = 0 .. n - 1
       /\ \A i \in 1 .. n : task_list[i].total_partitions = n
       /\ \A i \in 1 .. n : task_list[i].weight \in 1 .. 10

\* a call that asked for 0 partitions while devices were available, and one
\* task was created
C29_Witness ==
  /\ op = "distribute"
  /\ num_partitions = Request(0)
  /\ GetDeviceScores(env) # <<>>
  /\ Len(task_list) = 1

\* place of a device in the score table: the local node, then the peers in
\* directory order
DiscoveryPos(d) == IF d = Local THEN 0 ELSE d

\* C30: distribute_tasks and reassign_tasks order devices of equal score by
\* discovery order (the local node first, then the peers in directory
\* order), and the assignment is determined by the task list and the ordered
\* score table.
C30_TiesInDiscoveryOrder ==
  (op \in {"distribute", "reassign"} /\ sorted_devices # <<>>) =>
    /\ \A i, j \in 1 .. Len(sorted_devices) :
         i < j =>
           \/ sorted_devices[i].v > sorted_devices[j].v
           \/ /\ sorted_devices[i].v = sorted_devices[j].v
              /\ DiscoveryPos(sorted_devices[i].k) < DiscoveryPos(sorted_devices[j].k)
    /\ op = "distribute" =>
         ret = ComputeAssignments(sorted_devices, SortTasks(task_list))
    /\ op = "reassign" =>
         \A i \in 1 .. Len(ret) : ret[i].k = sorted_devices[i].k

\* tasks of a failed device were reassigned over devices among which two
\* have the same positive score
C30_Witness ==
  /\ op = "reassign"
  /\ ret # <<>>
  /\ \E i, j \in 1 .. Len(sorted_devices) :
       /\ i < j
       /\ sorted_devices[i].v = sorted_devices[j].v
       /\ sorted_devices[i].v > 0

\* the devices that are Active in a reading
ActiveDevices(e) ==
  {d \in {Local} : e.device_status = "Active"} \cup {p \in PeerIds : e.status[p] = "Active"}

\* C31: reassign_tasks never places a task on a device named in
\* failed_devices nor on a device that is not Active at the time of the call:
\* every target has a score and is not in the failed list, and after the call
\* no failed device has an entry in task_assignments.
C31_NoTaskOnFailedDevice ==
  op = "reassign" =>
    /\ \A i \in 1 .. Len(ret) :
         /\ ret[i].k \notin SeqSet(failed_devices)
         /\ ret[i].k \in ActiveDevices(env)
         /\ DictHas(GetDeviceScores(env), ret[i].k)
         /\ ret[i].v # <<>>
    /\ \A d \in SeqSet(failed_devices) : ~DictHas(task_assignments, d)

\* tasks were reassigned while a failed peer was still Active with a profile
\* (it did not answer the health check)
C31_Witness ==
  /\ op = "reassign"
  /\ ret # <<>>
  /\ \E d \in SeqSet(failed_devices) : DictHas(GetDeviceScores(env), d)

\* the local node if it is Active, and the Active peers that have a profile
Eligible(e) ==
  {d \in {Local} : e.device_status = "Active"}
    \cup {p \in PeerIds : e.status[p] = "Active" /\ e.profile[p] # NoProfile}

\* C32: the devices eligible for assignment computed by get_device_scores are
\* exactly the local node iff its status is Active, plus every peer whose
\* status is Active and whose profile is present; a Disconnected peer or a
\* peer without profile never receives a task from distribute_tasks or
\* reassign_tasks.
C32_EligibleDevices ==
  op \in {"distribute", "reassign"} =>
    /\ op = "distribute" => DictKeySet(sorted_devices) = Eligible(env)
    /\ op = "reassign" => DictKeySet(sorted_devices) \subseteq Eligible(env)
    /\ \A i \in 1 .. Len(ret) :
         /\ ret[i].k \in Eligible(env)
         /\ ret[i].k \in PeerIds =>
              (env.status[ret[i].k] # "Disconnected" /\ env.profile[ret[i].k] # NoProfile)

\* tasks were distributed to a peer while another peer with a profile was
\* Disconnected
C32_Witness ==
  /\ op = "distribute"
  /\ \E i \in 1 .. Len(ret) : ret[i].k \in PeerIds /\ ret[i].v # <<>>
  /\ \E p \in PeerIds : env.status[p] = "Disconnected" /\ env.profile[p] # NoProfile

\* C33: reassign_tasks is idempotent for a given failed list: a second call
\* with the same failed_devices and unchanged device status returns the empty
\* mapping and leaves task_assignments and reassigned_tasks unchanged.
C33_ReassignIdempotent ==
  [][(nreassign = 1 /\ nreassign' = 2) =>
       /\ failed_devices' = failed_devices
       /\ env' = env
       /\ ret' = <<>>
       /\ task_assignments' = task_assignments
       /\ reassigned_tasks' = reassigned_tasks]_vars

\* the call was repeated after a call that had moved tasks to other devices
C33_Witness ==
  /\ nreassign = 2
  /\ op = "reassign"
  /\ failed_devices # <<>>
  /\ reassigned_tasks # {}
  /\ \E i \in 1 .. Len(task_assignments) :
       \E t \in 1 .. Len(task_assignments[i].v) :
         task_assignments[i].v[t].id \in reassigned_tasks

\* the send_task_to_peer calls for one device, in order
LogOf(d) == SelectSeq(send_log, LAMBDA entry : entry.device = d)

\* C34: distribute_tasks_to_devices returns one status per device of the
\* assignment; the status of a remote device is True iff every one of its
\* tasks was sent successfully, and after the first failed send to a device
\* none of its later tasks is sent, while the tasks of the other devices are
\* still dispatched.
C34_SendStatus ==
  op = "send" =>
    /\ DictKeys(send_status) = DictKeys(ret)
    /\ \A k \in 1 .. Len(ret) :
         LET d == ret[k].k
             tasks == ret[k].v
             calls == LogOf(d)
         IN IF d = Local
              THEN /\ DictGet(send_status, d) = TRUE
                   /\ TaskIds(tasks) \subseteq dispatched[Local]
              ELSE /\ DictGet(send_status, d) =
                        (\A t \in 1 .. Len(tasks) :
                           \E c \in 1 .. Len(calls) : calls[c].id = tasks[t].id /\ calls[c].ok)
                   /\ \A c \in 1 .. Len(calls) : ~calls[c].ok => c = Len(calls)
                   /\ Len(calls) <= Len(tasks)
                   /\ \A c \in 1 .. Len(calls) : calls[c].id = tasks[c].id
                   /\ tasks # <<>> => calls # <<>>
                   /\ (\A c \in 1 .. Len(calls) : calls[c].ok) => Len(calls) = Len(tasks)

\* a send to one peer failed before the last of its tasks, and the peer after
\* it in the assignment got all of its tasks
C34_Witness ==
  /\ op = "send"
  /\ \E k1, k2 \in 1 .. Len(ret) :
       /\ k1 < k2
       /\ ret[k1].k # Local /\ ret[k2].k # Local
       /\ DictGet(send_status, ret[k1].k) = FALSE
       /\ Len(LogOf(ret[k1].k)) < Len(ret[k1].v)
       /\ DictGet(send_status, ret[k2].k) = TRUE
       /\ ret[k2].v # <<>>
       /\ TaskIds(ret[k2].v) \subseteq dispatched[ret[k2].k]

\* C35: the map returned by collect_results contains results only for task
\* ids of the assignment passed to that call; results left over from an
\* earlier submission never appear in it.
C35_OnlyAssignedResults ==
  c_pc = "done" => returned.results \subseteq assigned_ids

\* C36: for every interleaving of the message-handler thread processing
\* register messages with a discovery thread adding discovered peers,
\* EdgeDevice.peers never contains two records with the same url.
C36_NoDuplicateUrl ==
  \A i, j \in 1 .. Len(dev_peers) : dev_peers[i].url = dev_peers[j].url => i = j

\* C37: the EdgeDevice message loop sends exactly one reply for every
\* request it receives, also when processing the request raises an exception,
\* so the request/reply alternation of its socket is kept and every later
\* request is still received and answered.
C37_OneReplyPerRequest ==
  [][nmsg' # nmsg => (response' # NoReply /\ rep_socket' = "recv")]_vars

\* C38: run_peer answers every ping with a reply of status Active and every
\* task message with one detections reply, and after a message of any other
\* type it keeps serving: later pings are still answered and the loop does
\* not shut down.
C38_PeerKeepsServing ==
  [][/\ Len(rp_served') > Len(rp_served) =>
          LET last == rp_served'[Len(rp_served')]
          IN /\ last.message.type = "ping" =>
                  (last.reply.sent /\ last.reply.status = "Active")
             /\ last.message.type = "task" => (last.reply.sent /\ ~last.reply.raised)
     /\ rp_pc' = "serving"
     /\ rp_socket' = "recv"]_vars

\* the registered workers, in the order of self.peers
Workers == SelectSeq(dev_peers, LAMBDA peer : peer.type = "worker")

\* C39: distribute_task sends the task to exactly one worker, whose recorded
\* capability score is maximal among all registered peers of type worker
\* (the first such worker on ties), and returns that worker's url; on a node
\* that is no coordinator, or when no worker is registered, it raises an
\* error and sends nothing.
C39_TaskToBestWorker ==
  dt_out # NoCall =>
    IF is_coordinator /\ Workers # <<>>
      THEN /\ dt_out.raised = "none"
           /\ dt_sent = <<dt_out.worker>>
           /\ \E i \in 1 .. Len(Workers) :
                /\ Workers[i].url = dt_out.worker
                /\ \A j \in 1 .. Len(Workers) :
                     WorkerScore(Workers[j], worker_capabilities)
                       <= WorkerScore(Workers[i], worker_capabilities)
                /\ \A j \in 1 .. i - 1 :
                     WorkerScore(Workers[j], worker_capabilities)
                       < WorkerScore(Workers[i], worker_capabilities)
      ELSE /\ dt_out.raised # "none"
           /\ dt_sent = <<>>

====
